---- MODULE Spec2Model ----
(***************************************************************************)
(* Model of app.py, the contract-analysis script of genai-legal-assistant. *)
(*                                                                         *)
(* Text is a string of characters; Len, SubSeq and \o act on it as Python's *)
(* len, slicing and + do.  The Devanagari code points used by the script   *)
(* are written with one ASCII stand-in each (none of them a letter, a       *)
(* whitespace character or ASCII punctuation the script looks at), so that  *)
(* lengths in code points and substring tests are preserved:                *)
(*   U+0935 "0"  U+0947 "1"  U+0924 "2"  U+0928 "3"  U+0938 "4"             *)
(*   U+092E "5"  U+093E "6"  U+092A "7"  U+094D "8"  U+0915 "9"             *)
(*   U+0937 "@"  U+093F "#"  U+0942 "$"  U+0930 "%"  U+0926 "^"             *)
(*   U+0902 "&"  U+0921 "*"  U+0927 "+"  U+092F "="  U+0925 "~"             *)
(*   U+0964 (danda, the Devanagari full stop) "|"                           *)
(***************************************************************************)
EXTENDS Integers, Sequences, FiniteSets, TLC

VARIABLES
    uploaded_file,    \* the file_uploader widget's value: NoFile or a file
    pc,               \* position of the script run
    text,             \* text read from the uploaded file
    contract_type,
    clauses,          \* result of split_into_clauses(text)
    clause_data,      \* (clause, type, risks, risk_level) per analysed clause
    high_risk_count,
    overall_risk,
    audit_log,        \* lines of audit_log.json
    page,             \* what the run has rendered
    uploads,          \* number of files uploaded so far
    runs,             \* number of script runs started so far
    processed         \* history: ids of the files whose results were rendered

vars == <<uploaded_file, pc, text, contract_type, clauses, clause_data,
          high_risk_count, overall_risk, audit_log, page, uploads, runs, processed>>

----------------------------------------------------------------------------
(* Python string operations *)

CharAt(s, i) == SubSeq(s, i, i)

\* str.isspace for the characters of the model's alphabet
IsSpace(c) == c \in {" ", "\t", "\n", "\r", "\f"}

UpperCase == <<"A","B","C","D","E","F","G","H","I","J","K","L","M",
               "N","O","P","Q","R","S","T","U","V","W","X","Y","Z">>
LowerCase == <<"a","b","c","d","e","f","g","h","i","j","k","l","m",
               "n","o","p","q","r","s","t","u","v","w","x","y","z">>

LowerMap ==
    [c \in {UpperCase[i] : i \in 1..26} |->
        LowerCase[CHOOSE i \in 1..26 : UpperCase[i] = c]]

LowerChar(c) == IF c \in DOMAIN LowerMap THEN LowerMap[c] ELSE c

\* str.lower() of s[lo..hi], by halves
RECURSIVE LowerRange(_, _, _)
LowerRange(s, lo, hi) ==
    IF lo > hi THEN ""
    ELSE IF lo = hi THEN LowerChar(CharAt(s, lo))
    ELSE LET mid == (lo + hi) \div 2 IN
         LowerRange(s, lo, mid) \o LowerRange(s, mid + 1, hi)

\* str.lower()
Lower(s) == LowerRange(s, 1, Len(s))

\* k in s
Contains(s, k) ==
    \E i \in 1..(Len(s) - Len(k) + 1) : SubSeq(s, i, i + Len(k) - 1) = k

RECURSIVE ReplaceRange(_, _, _, _, _)
ReplaceRange(s, old, new, lo, hi) ==
    IF lo > hi THEN ""
    ELSE IF lo = hi THEN (IF CharAt(s, lo) = old THEN new ELSE CharAt(s, lo))
    ELSE LET mid == (lo + hi) \div 2 IN
         ReplaceRange(s, old, new, lo, mid) \o ReplaceRange(s, old, new, mid + 1, hi)

\* str.replace(old, new) for a one-character old
Replace(s, old, new) == ReplaceRange(s, old, new, 1, Len(s))

\* the elements of a set of integers in increasing order
Sorted(S) ==
    LET rank == [i \in S |-> Cardinality({j \in S : j < i})]
    IN  [k \in 1..Cardinality(S) |-> CHOOSE i \in S : rank[i] = k - 1]

\* str.split(): the maximal runs of non-whitespace characters, in order
Words(s) ==
    LET starts == {i \in 1..Len(s) :
                      /\ ~IsSpace(CharAt(s, i))
                      /\ (i = 1 \/ IsSpace(CharAt(s, i - 1)))}
        ends   == {i \in 1..Len(s) :
                      /\ ~IsSpace(CharAt(s, i))
                      /\ (i = Len(s) \/ IsSpace(CharAt(s, i + 1)))}
        from == Sorted(starts)
        to   == Sorted(ends)
    IN  [k \in 1..Len(from) |-> SubSeq(s, from[k], to[k])]

\* sep.join(parts[lo..hi]), by halves
RECURSIVE JoinRange(_, _, _, _)
JoinRange(sep, parts, lo, hi) ==
    IF lo > hi THEN ""
    ELSE IF lo = hi THEN parts[lo]
    ELSE LET mid == (lo + hi) \div 2 IN
         JoinRange(sep, parts, lo, mid) \o sep \o JoinRange(sep, parts, mid + 1, hi)

\* sep.join(parts)
Join(sep, parts) == JoinRange(sep, parts, 1, Len(parts))

RECURSIVE LStrip(_)
LStrip(s) ==
    IF s # "" /\ IsSpace(CharAt(s, 1)) THEN LStrip(SubSeq(s, 2, Len(s))) ELSE s

RECURSIVE RStrip(_)
RStrip(s) ==
    IF s # "" /\ IsSpace(CharAt(s, Len(s)))
    THEN RStrip(SubSeq(s, 1, Len(s) - 1)) ELSE s

\* str.rstrip() where the code calls strip()
StripRightOnly(s) == RStrip(s)

\* str.strip()
Strip(s) == LStrip(RStrip(s))

----------------------------------------------------------------------------
(* CLAUSE SPLITTER *)

\* the character class [.!?|] of the sentence pattern
Terminators == {".", "!", "?", "|"}

\* first index >= i that is not whitespace (Len(s) + 1 if there is none)
SkipSpace(s, i) ==
    CHOOSE j \in i..(Len(s) + 1) :
        /\ j = Len(s) + 1 \/ ~IsSpace(CharAt(s, j))
        /\ \A m \in i..(j - 1) : IsSpace(CharAt(s, m))

\* re.split(r'(?<=[.!?|])\s+', s): every maximal whitespace run that directly
\* follows a terminator is a separator; the pieces between separators, in order
SplitSentences(s) ==
    LET cuts == {i \in 2..Len(s) :
                    /\ IsSpace(CharAt(s, i))
                    /\ CharAt(s, i - 1) \in Terminators}
        to   == Sorted(cuts)
        from == [k \in 1..(Len(to) + 1) |->
                    IF k = 1 THEN 1 ELSE SkipSpace(s, to[k - 1])]
    IN  [k \in 1..(Len(to) + 1) |->
            SubSeq(s, from[k], IF k <= Len(to) THEN to[k] - 1 ELSE Len(s))]


\* lines 48-49
Normalize(raw) == Join(" ", Words(Replace(Replace(raw, "\r", " "), "\n", " ")))

MinSentenceLen == 30

triggers == <<"shall", "must", "may", "terminate", "indemnify", "penalty",
              "arbitration", "jurisdiction", "renew", "confidential",
              "non-compete", "0123", "456782", "98@2#7$%82#", "^&*",
              "5+8=48~26">>

\* any(k in sent.lower() for k in triggers)
HasTrigger(sent) ==
    LET t == Lower(sent) IN \E n \in 1..Len(triggers) : Contains(t, triggers[n])

\* the loop body of lines 62-67 with a trigger-less sentence dropped while the
\* buffer is empty
GroupStepDropLeading(cl, buffer, sent) ==
    IF HasTrigger(sent)
    THEN [clauses |-> IF buffer # "" THEN Append(cl, Strip(buffer)) ELSE cl,
          buffer  |-> sent]
    ELSE [clauses |-> cl,
          buffer  |-> IF buffer = "" THEN "" ELSE buffer \o " " \o sent]

\* the loop body with line 65 appending to the buffer instead of restarting it
GroupStepKeepBuffer(cl, buffer, sent) ==
    IF HasTrigger(sent)
    THEN [clauses |-> IF buffer # "" THEN Append(cl, Strip(buffer)) ELSE cl,
          buffer  |-> buffer \o " " \o sent]
    ELSE [clauses |-> cl, buffer |-> buffer \o " " \o sent]

\* the loop body of lines 62-67, for a sentence that passed line 60
GroupStep(cl, buffer, sent) ==
    IF HasTrigger(sent)
    THEN [clauses |-> IF buffer # "" THEN Append(cl, Strip(buffer)) ELSE cl,
          buffer  |-> sent]
    ELSE [clauses |-> cl, buffer |-> buffer \o " " \o sent]

\* the for loop of lines 59-67 from sentence i on, then lines 69-70
RECURSIVE GroupFrom(_, _, _, _)
GroupFrom(sentences, i, cl, buffer) ==
    IF i > Len(sentences)
    THEN (IF Strip(buffer) # "" THEN Append(cl, Strip(buffer)) ELSE cl)
    ELSE IF Len(sentences[i]) < MinSentenceLen
         THEN GroupFrom(sentences, i + 1, cl, buffer)
         ELSE LET step == GroupStep(cl, buffer, sentences[i])
              IN  GroupFrom(sentences, i + 1, step.clauses, step.buffer)

\* split_into_clauses without the fallback of line 72
split_into_clauses_no_fallback(raw) ==
    GroupFrom(SplitSentences(Normalize(raw)), 1, <<>>, "")

split_into_clauses(raw) ==
    LET t == Normalize(raw)
        cl == GroupFrom(SplitSentences(t), 1, <<>>, "")
    IN  IF cl # <<>> THEN cl ELSE <<t>>

----------------------------------------------------------------------------
(* NLP HELPERS *)

\* classify_clause without the lower() of line 76
classify_clause_case_sensitive(clause) ==
    IF Contains(clause, "shall not") \/ Contains(clause, "must not") THEN "Prohibition"
    ELSE IF Contains(clause, "shall") \/ Contains(clause, "must") THEN "Obligation"
    ELSE IF Contains(clause, "may") THEN "Right"
    ELSE "General"

classify_clause(clause) ==
    LET t == Lower(clause) IN
    IF Contains(t, "shall not") \/ Contains(t, "must not") THEN "Prohibition"
    ELSE IF Contains(t, "shall") \/ Contains(t, "must") THEN "Obligation"
    ELSE IF Contains(t, "may") THEN "Right"
    ELSE "General"

PenaltyRisk == "Penalty clause may impose financial burden."
IndemnityRisk == "Indemnity clause shifts legal liability."
NonCompeteRisk == "Non-compete restricts future work or business."
TerminationRisk == "Unilateral termination favors one party."
ArbitrationRisk == "Arbitration or jurisdiction may increase legal cost."
AutoRenewalRisk == "Auto-renewal may lock parties into agreement."

\* detect_risks with line 98 testing for the phrase "auto-renew"
detect_risks_auto_renew_phrase(clause) ==
    LET t == Lower(clause) IN
       (IF Contains(t, "penalty") \/ Contains(t, "fine")
        THEN <<PenaltyRisk>> ELSE <<>>)
    \o (IF Contains(t, "indemnify") THEN <<IndemnityRisk>> ELSE <<>>)
    \o (IF Contains(t, "non-compete") THEN <<NonCompeteRisk>> ELSE <<>>)
    \o (IF Contains(t, "terminate without notice") \/ Contains(t, "sole discretion")
        THEN <<TerminationRisk>> ELSE <<>>)
    \o (IF Contains(t, "arbitration") \/ Contains(t, "jurisdiction")
        THEN <<ArbitrationRisk>> ELSE <<>>)
    \o (IF Contains(t, "auto-renew") THEN <<AutoRenewalRisk>> ELSE <<>>)

detect_risks(clause) ==
    LET t == Lower(clause) IN
       (IF Contains(t, "penalty") \/ Contains(t, "fine")
        THEN <<PenaltyRisk>> ELSE <<>>)
    \o (IF Contains(t, "indemnify") THEN <<IndemnityRisk>> ELSE <<>>)
    \o (IF Contains(t, "non-compete") THEN <<NonCompeteRisk>> ELSE <<>>)
    \o (IF Contains(t, "terminate without notice") \/ Contains(t, "sole discretion")
        THEN <<TerminationRisk>> ELSE <<>>)
    \o (IF Contains(t, "arbitration") \/ Contains(t, "jurisdiction")
        THEN <<ArbitrationRisk>> ELSE <<>>)
    \o (IF Contains(t, "auto") /\ Contains(t, "renew")
        THEN <<AutoRenewalRisk>> ELSE <<>>)

\* score_clause with line 105 comparing len(risks) <= 2
score_clause_two_is_medium(risks) ==
    IF risks = <<>> THEN "Low"
    ELSE IF Len(risks) <= 2 THEN "Medium" ELSE "High"

score_clause(risks) ==
    IF risks = <<>> THEN "Low"
    ELSE IF Len(risks) = 1 THEN "Medium" ELSE "High"

explain_clause(risks) ==
    IF risks = <<>> THEN "This clause appears standard and low risk."
    ELSE "This clause may be risky because: " \o Join(" ", risks)

ambiguous == <<"reasonable", "as required", "from time to time",
               "at discretion", "as deemed fit", "as applicable">>

detect_ambiguity(clause) ==
    SelectSeq(ambiguous, LAMBDA a : Contains(Lower(clause), a))

RECURSIVE mitigation_advice(_)
mitigation_advice(risks) ==
    IF risks = <<>> THEN <<>>
    ELSE LET r == Lower(Head(risks)) IN
            (IF Contains(r, "termination")
             THEN <<"Add mutual notice period for termination.">> ELSE <<>>)
         \o (IF Contains(r, "non-compete")
             THEN <<"Limit non-compete scope and duration.">> ELSE <<>>)
         \o (IF Contains(r, "indemnity")
             THEN <<"Cap indemnity liability to a reasonable amount.">> ELSE <<>>)
         \o (IF Contains(r, "auto-renew")
             THEN <<"Add opt-out clause before renewal.">> ELSE <<>>)
         \o mitigation_advice(Tail(risks))

----------------------------------------------------------------------------
(* FILE READER, AUDIT LOG, TEMPLATES *)

NoFile == [id |-> 0, name |-> "", data |-> ""]

EndsWith(s, suffix) ==
    /\ Len(s) >= Len(suffix)
    /\ SubSeq(s, Len(s) - Len(suffix) + 1, Len(s)) = suffix

\* The .pdf and .docx branches hand the file to PyPDF2 and python-docx; the
\* files of the model are .txt files, whose data is their decoded text.
read_file(file) == IF EndsWith(file.name, ".txt") THEN file.data ELSE ""

\* the line log_audit appends; datetime.now() is the number of the run
AuditEntry(ct, risk) ==
    [timestamp |-> runs, contract_type |-> ct, overall_risk |-> risk]

TEMPLATES(ct) ==
    CASE ct = "Employment Agreement" ->
           "Balanced employment agreement with mutual termination notice and limited non-compete."
      [] ct = "Vendor Contract" ->
           "Vendor agreement with capped indemnity and clear payment terms."
      [] ct = "Lease Agreement" ->
           "Lease with fixed lock-in and explicit renewal consent."
      [] ct = "Service Contract" ->
           "Service contract defining deliverables and liability caps."
      [] OTHER -> "Template not available"

----------------------------------------------------------------------------
(* MAIN LOGIC *)

\* lines 171-181
ContractType(raw) ==
    LET t == Lower(raw) IN
    IF Contains(t, "employee") \/ Contains(t, "salary") THEN "Employment Agreement"
    ELSE IF Contains(t, "lease") \/ Contains(t, "rent") THEN "Lease Agreement"
    ELSE IF Contains(t, "vendor") THEN "Vendor Contract"
    ELSE IF Contains(t, "partner") THEN "Partnership Deed"
    ELSE "Service Contract"

\* lines 197-202 with line 197 comparing high_risk_count > 3
OverallRiskAboveThree(h) ==
    IF h > 3 THEN "HIGH RISK"
    ELSE IF h >= 1 THEN "MEDIUM RISK"
    ELSE "LOW RISK"

\* lines 197-202
OverallRisk(h) ==
    IF h >= 3 THEN "HIGH RISK"
    ELSE IF h >= 1 THEN "MEDIUM RISK"
    ELSE "LOW RISK"

\* what lines 166-169 can leave in lang ("unknown" when detect raises)
Languages == {"en", "hi", "unknown"}

\* Sentences the inputs are put together from, each with the whitespace that
\* follows it in the file.
Fragments == <<
    "A fine is owed at sole discretion of owner?\r\n",
    "Employee SHALL NOT pay the penalty and must indemnify us.  ",
    "Vendor may auto-renew despite non-compete.No Delhi jurisdiction!\n",
    "You must go.\t",
    "Payment of 0123 is due on day one of month|\n\n",
    "The contract will automatically renew each year ",
    " Hello there. " >>

DocFragments == <<
    "The office is located in Pune city. ",
    "Employee SHALL NOT pay the penalty and must indemnify us.  ",
    "Vendor may auto-renew despite non-compete.No Delhi jurisdiction!\n" >>

MaxParts == 3
MaxRuns == 2

\* the concatenations of at most n of the given fragments
RECURSIVE Concats(_, _)
Concats(frags, n) ==
    IF n = 0 THEN {""}
    ELSE LET shorter == Concats(frags, n - 1) IN
         shorter \cup {frags[i] \o t : i \in 1..Len(frags), t \in shorter}

Texts == Concats(Fragments, MaxParts)
Documents == Concats(DocFragments, MaxParts)

Idle == pc \in {"idle", "done", "failed"}

\* Streamlit runs the script from the top, in a fresh namespace and on a
\* cleared page, with the uploader holding f
StartRun(f) ==
    /\ Idle
    /\ runs < MaxRuns
    /\ runs' = runs + 1
    /\ uploaded_file' = f
    /\ pc' = "main"
    /\ text' = ""
    /\ contract_type' = ""
    /\ clauses' = <<>>
    /\ clause_data' = <<>>
    /\ high_risk_count' = 0
    /\ overall_risk' = ""
    /\ page' = <<>>
    /\ UNCHANGED <<audit_log, processed>>

\* the user uploads a file
Upload ==
    \E d \in Documents :
        /\ uploads' = uploads + 1
        /\ StartRun([id |-> uploads + 1, name |-> "contract.txt", data |-> d])

\* the user clicks the download button (or any other widget): the script is
\* run again with the uploader's value unchanged
Rerun ==
    /\ UNCHANGED uploads
    /\ StartRun(uploaded_file)

\* the user removes the file from the uploader
RemoveFile ==
    /\ uploaded_file # NoFile
    /\ UNCHANGED uploads
    /\ StartRun(NoFile)

\* line 163, uploaded_file is None
SkipMain ==
    /\ pc = "main"
    /\ uploaded_file = NoFile
    /\ pc' = "done"
    /\ UNCHANGED <<uploaded_file, text, contract_type, clauses, clause_data,
                   high_risk_count, overall_risk, audit_log, page, uploads,
                   runs, processed>>

\* lines 163-186 (the language detection of lines 166-169 is drawn in Render)
ReadAndSplit ==
    /\ pc = "main"
    /\ uploaded_file # NoFile
    /\ text' = read_file(uploaded_file)
    /\ contract_type' = ContractType(text')
    /\ clauses' = split_into_clauses(text')
    /\ clause_data' = <<>>
    /\ high_risk_count' = 0
    /\ pc' = "loop"
    /\ UNCHANGED <<uploaded_file, overall_risk, audit_log, page, uploads, runs,
                   processed>>

\* lines 188-195, one iteration
AnalyzeClause ==
    /\ pc = "loop"
    /\ Len(clause_data) < Len(clauses)
    /\ LET clause == clauses[Len(clause_data) + 1]
           risks == detect_risks(clause)
           risk_level == score_clause(risks)
       IN  /\ high_risk_count' =
                  IF risk_level = "High" THEN high_risk_count + 1
                  ELSE high_risk_count
           /\ clause_data' = Append(clause_data,
                  [clause |-> clause, type |-> classify_clause(clause),
                   risks |-> risks, risk_level |-> risk_level])
    /\ UNCHANGED <<uploaded_file, pc, text, contract_type, clauses,
                   overall_risk, audit_log, page, uploads, runs, processed>>

\* lines 197-202, after the loop
Aggregate ==
    /\ pc = "loop"
    /\ Len(clause_data) = Len(clauses)
    /\ overall_risk' = OverallRisk(high_risk_count)
    /\ pc' = "log"
    /\ UNCHANGED <<uploaded_file, text, contract_type, clauses, clause_data,
                   high_risk_count, audit_log, page, uploads, runs, processed>>

\* line 204, the append succeeds
LogAudit ==
    /\ pc = "log"
    /\ audit_log' = Append(audit_log, AuditEntry(contract_type, overall_risk))
    /\ pc' = "render"
    /\ UNCHANGED <<uploaded_file, text, contract_type, clauses, clause_data,
                   high_risk_count, overall_risk, page, uploads, runs, processed>>

\* line 204, open or write raises OSError: nothing catches it, the run ends
\* there and Streamlit shows the exception
LogAuditFails ==
    /\ pc = "log"
    /\ page' = <<[section |-> "exception", body |-> "OSError"]>>
    /\ pc' = "failed"
    /\ UNCHANGED <<uploaded_file, text, contract_type, clauses, clause_data,
                   high_risk_count, overall_risk, audit_log, uploads, runs,
                   processed>>

\* the expander of one clause, lines 229-243
ClauseView(e) ==
    [clause |-> e.clause, type |-> e.type, risk_level |-> e.risk_level,
     explanation |-> explain_clause(e.risks),
     ambiguous |-> detect_ambiguity(e.clause),
     advice |-> mitigation_advice(e.risks)]

\* lines 206-279; the entity section, which shows regular-expression matches
\* of text, is left out of page.  lang is read here only (line 210), so the
\* language detector's answer is drawn here.
Render ==
    /\ pc = "render"
    /\ \E lang \in Languages : page' = <<
         [section |-> "overview",
          body |-> [language |-> IF lang = "hi" THEN "Hindi" ELSE "English",
                    contract_type |-> contract_type,
                    overall_risk |-> overall_risk]],
         [section |-> "analysis",
          body |-> [i \in 1..Len(clause_data) |-> ClauseView(clause_data[i])]],
         [section |-> "summary",
          body |-> [contract_type |-> contract_type,
                    overall_risk |-> overall_risk,
                    total |-> Len(clauses),
                    high |-> high_risk_count]],
         [section |-> "template", body |-> TEMPLATES(contract_type)] >>
    /\ processed' = processed \cup {uploaded_file.id}
    /\ pc' = "done"
    /\ UNCHANGED <<uploaded_file, text, contract_type, clauses, clause_data,
                   high_risk_count, overall_risk, audit_log, uploads, runs>>

Init ==
    /\ uploaded_file = NoFile
    /\ pc = "idle"
    /\ text = ""
    /\ contract_type = ""
    /\ clauses = <<>>
    /\ clause_data = <<>>
    /\ high_risk_count = 0
    /\ overall_risk = ""
    /\ audit_log = <<>>
    /\ page = <<>>
    /\ uploads = 0
    /\ runs = 0
    /\ processed = {}

Next ==
    \/ Upload
    \/ Rerun
    \/ RemoveFile
    \/ SkipMain
    \/ ReadAndSplit
    \/ AnalyzeClause
    \/ Aggregate
    \/ LogAudit
    \/ LogAuditFails
    \/ Render

Spec == Init /\ [][Next]_vars

\* The analysis of one document (lines 163-202) on a wider set of texts: the
\* script has just been started on an uploaded file.
InitClauses ==
    /\ \E d \in Texts :
           uploaded_file = [id |-> 1, name |-> "contract.txt", data |-> d]
    /\ pc = "main"
    /\ text = ""
    /\ contract_type = ""
    /\ clauses = <<>>
    /\ clause_data = <<>>
    /\ high_risk_count = 0
    /\ overall_risk = ""
    /\ audit_log = <<>>
    /\ page = <<>>
    /\ uploads = 1
    /\ runs = 1
    /\ processed = {}

NextClauses ==
    \/ ReadAndSplit
    \/ AnalyzeClause
    \/ Aggregate

SpecClauses == InitClauses /\ [][NextClauses]_vars

----------------------------------------------------------------------------
(* Properties of split_into_clauses, stated on the state right after the    *)
(* call of line 183                                                         *)

AfterSplit == pc = "loop" /\ clause_data = <<>>

NormText == Normalize(text)

\* the Sentence Splitter's sequence
Sentences == SplitSentences(NormText)

\* the sentences of S that pass the length filter of line 60
Retained(S) == SelectSeq(S, LAMBDA sent : Len(sent) >= MinSentenceLen)

\* the sentences of S that contain a trigger keyword
TriggerBearing(S) == SelectSeq(S, HasTrigger)

\* index of the first sentence of S that contains a trigger keyword, from
\* sentence i on; 0 if there is none
RECURSIVE FirstTrigger(_, _)
FirstTrigger(S, i) ==
    IF i > Len(S) THEN 0
    ELSE IF HasTrigger(S[i]) THEN i ELSE FirstTrigger(S, i + 1)

\* the sentences each clause is made of
RECURSIVE ClauseSentencesFrom(_, _)
ClauseSentencesFrom(cl, k) ==
    IF k > Len(cl) THEN <<>>
    ELSE <<SplitSentences(cl[k])>> \o ClauseSentencesFrom(cl, k + 1)

ClauseSentences == ClauseSentencesFrom(clauses, 1)

\* the sentences of all clauses, read in output order
RECURSIVE ConcatAll(_, _)
ConcatAll(f, n) == IF n = 0 THEN <<>> ELSE ConcatAll(f, n - 1) \o f[n]

\* a is b with some elements left out: match the elements of a from the left
RECURSIVE IsSubseqFrom(_, _, _, _)
IsSubseqFrom(a, b, i, j) ==
    IF i > Len(a) THEN TRUE
    ELSE IF j > Len(b) THEN FALSE
    ELSE IF a[i] = b[j] THEN IsSubseqFrom(a, b, i + 1, j + 1)
    ELSE IsSubseqFrom(a, b, i, j + 1)

IsSubseq(a, b) == IsSubseqFrom(a, b, 1, 1)

\* C1: split_into_clauses returns at least one clause for every text, and
\* exactly the one empty clause for the empty text.
C1_NonEmptyResult ==
    AfterSplit =>
        /\ Len(clauses) >= 1
        /\ (text = "" => clauses = <<"">>)

C1_Witness == AfterSplit /\ text = "" /\ clauses = <<"">>

\* C2 as claimed: when no sentence contains a trigger keyword the result is
\* the one clause holding the entire normalized text.
C2_WholeTextWhenNoTrigger ==
    AfterSplit =>
        LET t == NormText IN
        TriggerBearing(SplitSentences(t)) = <<>> => clauses = <<t>>

\* C2 amended: when no sentence contains a trigger keyword the result is one
\* clause: the sentences of at least 30 characters joined by single spaces,
\* or the entire normalized text when no sentence is that long.
C2_OneClauseWhenNoTrigger ==
    AfterSplit =>
        LET t == NormText
            S == SplitSentences(t)
            R == Retained(S)
        IN  TriggerBearing(S) = <<>> =>
                clauses = << IF R = <<>> THEN t ELSE Join(" ", R) >>

C2_Witness ==
    /\ AfterSplit
    /\ LET S == Sentences
           R == Retained(S)
       IN  /\ TriggerBearing(S) = <<>>
           /\ R # <<>>
           /\ Len(R) < Len(S)
    /\ Len(clauses) = 1

\* The trigger-less sentences of at least 30 characters that come before the
\* first trigger-bearing sentence of the document: with ft the index of that
\* sentence, the sentences S[i] with i < ft and Len(S[i]) >= 30.

\* C3 as claimed: such a sentence is dropped, its text is in no clause.
C3_LeadingSentenceDropped ==
    AfterSplit =>
        LET S == Sentences
            ft == FirstTrigger(S, 1)
        IN  \A i \in 1..(ft - 1) :
                Len(S[i]) >= MinSentenceLen =>
                    \A k \in 1..Len(clauses) : ~Contains(clauses[k], S[i])

\* C3 amended: such a sentence is kept: it is one of the sentences of the first
\* clause, which holds trigger-less sentences only.
C3_LeadingSentenceKept ==
    AfterSplit =>
        LET S == Sentences
            ft == FirstTrigger(S, 1)
            first == SplitSentences(clauses[1])
        IN  \A i \in 1..(ft - 1) :
                Len(S[i]) >= MinSentenceLen =>
                    /\ \E m \in 1..Len(first) : first[m] = S[i]
                    /\ TriggerBearing(first) = <<>>

C3_Witness ==
    /\ AfterSplit
    /\ Len(clauses) >= 2
    /\ LET S == Sentences
           ft == FirstTrigger(S, 1)
       IN  /\ \E i \in 1..(ft - 1) : Len(S[i]) >= MinSentenceLen
           /\ Len(S[ft]) >= MinSentenceLen
           /\ Contains(clauses[2], S[ft])

\* C4 as claimed, for the documents with a retained sentence (the fallback of
\* line 72 plays no part in them): the sentences of the clauses, in output
\* order, are a subsequence of the splitter's sequence, and every clause is
\* made of retained sentences of which the first bears a trigger.
C4_ClausesAnchored ==
    (AfterSplit /\ Retained(Sentences) # <<>>) =>
        LET CS == ClauseSentences IN
        /\ IsSubseq(ConcatAll(CS, Len(CS)), Sentences)
        /\ \A k \in 1..Len(CS) :
               /\ Retained(CS[k]) = CS[k]
               /\ HasTrigger(CS[k][1])

\* C4 amended: the sentences of the clauses, in output order, are a
\* subsequence of the splitter's sequence.  When some sentence is retained the
\* clauses hold exactly the retained sentences, in order (so each clause is a
\* run of consecutive retained sentences), every clause after the first starts
\* with a trigger-bearing sentence and no clause has one further in; when none
\* is retained the one clause is the whole normalized text.
C4_ClausesInOrder ==
    AfterSplit =>
        LET t == NormText
            S == SplitSentences(t)
            R == Retained(S)
            CS == ClauseSentences
            all == ConcatAll(CS, Len(CS))
        IN  /\ IsSubseq(all, S)
            /\ IF R = <<>>
               THEN clauses = <<t>>
               ELSE /\ all = R
                    /\ \A k \in 1..Len(CS) :
                           /\ k >= 2 => HasTrigger(CS[k][1])
                           /\ TriggerBearing(Tail(CS[k])) = <<>>

C4_Witness ==
    /\ AfterSplit
    /\ Len(clauses) >= 2
    /\ LET CS == ClauseSentences IN
       /\ ~HasTrigger(CS[1][1])
       /\ \E k \in 1..Len(CS) : Len(CS[k]) >= 2

----------------------------------------------------------------------------
(* Properties of the per-clause analysis and of the aggregation *)

AllRisks == <<PenaltyRisk, IndemnityRisk, NonCompeteRisk, TerminationRisk,
              ArbitrationRisk, AutoRenewalRisk>>

Count(seq, x) == Cardinality({i \in 1..Len(seq) : seq[i] = x})

\* C5: the severity of an analysed clause is Low exactly when it has no risk
\* statement, Medium exactly when it has one, High exactly when it has more.
C5_ScoreFollowsRiskCount ==
    \A i \in 1..Len(clause_data) :
        LET e == clause_data[i] IN
        /\ e.risk_level \in {"Low", "Medium", "High"}
        /\ e.risk_level = "Low" <=> Len(e.risks) = 0
        /\ e.risk_level = "Medium" <=> Len(e.risks) = 1
        /\ e.risk_level = "High" <=> Len(e.risks) >= 2

C5_Witness ==
    /\ \E i \in 1..Len(clause_data) :
           clause_data[i].risk_level = "Low" /\ clause_data[i].risks = <<>>
    /\ \E i \in 1..Len(clause_data) :
           clause_data[i].risk_level = "Medium" /\ Len(clause_data[i].risks) = 1
    /\ \E i \in 1..Len(clause_data) :
           clause_data[i].risk_level = "High" /\ Len(clause_data[i].risks) >= 2

\* the number of analysed clauses with two or more risk statements
HighClauses ==
    Cardinality({i \in 1..Len(clause_data) : Len(clause_data[i].risks) >= 2})

\* C6: once the loop has analysed every clause of the document, the overall
\* risk is HIGH RISK iff h >= 3, MEDIUM RISK iff h is 1 or 2 and LOW RISK iff
\* h = 0, where h is the number of clauses with two or more risk statements.
C6_OverallRiskFromHighCount ==
    pc = "log" =>
        /\ Len(clause_data) = Len(clauses)
        /\ \A i \in 1..Len(clauses) : clause_data[i].clause = clauses[i]
        /\ high_risk_count = HighClauses
        /\ overall_risk = "HIGH RISK" <=> HighClauses >= 3
        /\ overall_risk = "MEDIUM RISK" <=> HighClauses \in {1, 2}
        /\ overall_risk = "LOW RISK" <=> HighClauses = 0

C6_Witness ==
    /\ pc = "log"
    /\ HighClauses = 3
    /\ Len(clauses) = 3
    /\ overall_risk = "HIGH RISK"

\* the substring condition of each risk statement, on the lower-cased clause
RiskCondition(t, n) ==
    CASE n = 1 -> Contains(t, "penalty") \/ Contains(t, "fine")
      [] n = 2 -> Contains(t, "indemnify")
      [] n = 3 -> Contains(t, "non-compete")
      [] n = 4 -> Contains(t, "terminate without notice") \/ Contains(t, "sole discretion")
      [] n = 5 -> Contains(t, "arbitration") \/ Contains(t, "jurisdiction")
      [] n = 6 -> Contains(t, "auto") /\ Contains(t, "renew")

JustAnalysed == pc = "loop" /\ clause_data # <<>>

\* C9: the risks of an analysed clause are a subsequence of the six statements
\* in their fixed order, each at most once, and each is there exactly when its
\* own substring condition holds.
C9_RisksMatchConditions ==
    JustAnalysed =>
        LET e == clause_data[Len(clause_data)]
            t == Lower(e.clause)
        IN  /\ IsSubseq(e.risks, AllRisks)
            /\ \A n \in 1..6 :
                   /\ Count(e.risks, AllRisks[n]) <= 1
                   /\ Count(e.risks, AllRisks[n]) = 1 <=> RiskCondition(t, n)

C9_Witness ==
    /\ JustAnalysed
    /\ LET e == clause_data[Len(clause_data)] IN
       /\ Contains(Lower(e.clause), "automatically renew")
       /\ ~Contains(Lower(e.clause), "auto-renew")
       /\ Count(e.risks, AutoRenewalRisk) = 1
       /\ Len(e.risks) >= 2

\* C10: the type of an analysed clause is the first that applies of
\* Prohibition ("shall not" or "must not"), Obligation ("shall" or "must"),
\* Right ("may") and General, whatever the case of the letters.
C10_ClassifiedByPriority ==
    JustAnalysed =>
        LET e == clause_data[Len(clause_data)]
            t == Lower(e.clause)
            prohibition == Contains(t, "shall not") \/ Contains(t, "must not")
            obligation == Contains(t, "shall") \/ Contains(t, "must")
            right == Contains(t, "may")
        IN  /\ e.type \in {"Prohibition", "Obligation", "Right", "General"}
            /\ e.type = "Prohibition" <=> prohibition
            /\ e.type = "Obligation" <=> ~prohibition /\ obligation
            /\ e.type = "Right" <=> ~prohibition /\ ~obligation /\ right
            /\ e.type = "General" <=> ~prohibition /\ ~obligation /\ ~right

C10_Witness ==
    /\ JustAnalysed
    /\ \E i \in 1..Len(clause_data) :
           /\ clause_data[i].type = "Prohibition"
           /\ Contains(clause_data[i].clause, "SHALL NOT")
           /\ Contains(clause_data[i].clause, "must")
    /\ \E i \in 1..Len(clause_data) :
           /\ clause_data[i].type = "Right"
           /\ Contains(clause_data[i].clause, "may")

----------------------------------------------------------------------------
(* Properties of the audit log *)

ResultsShown ==
    /\ \E i \in 1..Len(page) : page[i].section = "overview"
    /\ \E i \in 1..Len(page) : page[i].section = "analysis"
    /\ \E i \in 1..Len(page) : page[i].section = "summary"

\* C7: a run in which the write of the audit entry failed still ends with the
\* overview, the clause-by-clause analysis and the summary on the page.
C7_AuditFailureNonFatal == pc = "failed" => ResultsShown

\* C8: when a run has ended with its results shown, the audit log holds one
\* record for every document processed so far, no more and no fewer.
C8_OneRecordPerDocument == pc = "done" => Len(audit_log) = Cardinality(processed)

====
